---- MODULE Spec2Model ----
(***************************************************************************)
(* Inventory reservation, booking and transfer handlers of the real-estate *)
(* management API (FastAPI routers over a shared SQL store).               *)
(*                                                                         *)
(* Every request handler runs in its own database session.  A handler      *)
(* first SELECTs the rows it works on (no FOR UPDATE, no version column),  *)
(* evaluates its guards on the loaded objects and finally commits.  The    *)
(* unit of work writes, for every loaded row, only the columns whose       *)
(* assigned value differs from the value that was loaded.  A request whose *)
(* guards fail answers at once and writes nothing.  The server's answer to *)
(* a request stays in resp until it has been sent.                         *)
(*                                                                         *)
(* Spec serves the requests one at a time.  SpecRace suspends one request  *)
(* between its reads and its commit while other requests run start to end. *)
(* SpecStored and SpecRaceStored start from a store that already holds a   *)
(* transfer.                                                               *)
(***************************************************************************)
EXTENDS Integers, FiniteSets, Sequences, TLC

VARIABLES unit, bookings, transfers, now, inflight, resp, nextBooking, nextTransfer,
          projects

vars == <<unit, bookings, transfers, now, inflight, resp, nextBooking, nextTransfer,
          projects>>

----------------------------------------------------------------------------
\* Bounds of the model.
MaxInflight == 1
MaxBookings == 2
MaxTransfers == 1
MaxTicks == 1

\* core/config.py business rules.
DEFAULT_HOLD_EXPIRY_HOURS == 168
TRANSFER_FEE_PERCENTAGE == 2

\* The clock advances in steps of one hold period.
HoursPerTick == DEFAULT_HOLD_EXPIRY_HOURS + 1

NoUser == "none"
NoBuilder == "none"
NoDate == 0 - 1
NoFee == 0 - 1

----------------------------------------------------------------------------
\* Rows that the handlers only read.

Units == {"u1", "u2"}
Customers == {"c1", "c2"}
\* The customers bookings are created for.
Buyers == {"c1"}
BookingIds == 1..MaxBookings
TransferIds == 1..MaxTransfers

\* users table: role and builder of every actor.
User ==
  [ agentA |-> [role |-> "sales_agent",  builder_id |-> "b1"],
    agentB |-> [role |-> "sales_agent",  builder_id |-> "b1"],
    agentX |-> [role |-> "sales_agent",  builder_id |-> "b2"],
    admin  |-> [role |-> "admin",        builder_id |-> "b1"],
    super  |-> [role |-> "super_admin",  builder_id |-> "b1"],
    master |-> [role |-> "master_admin", builder_id |-> NoBuilder] ]

Users == DOMAIN User

\* projects table: the builder owning the project of each unit.
ProjectBuilder(inventory_id) == "b1"

\* inventory.price
Price(inventory_id) == IF inventory_id = "u1" THEN 1000000 ELSE 500000

\* investor_inventory_assignments table.
Assignments ==
  { [inventory_id |-> "u2", consent_required |-> TRUE, status |-> "active"],
    [inventory_id |-> "u1", consent_required |-> TRUE, status |-> "inactive"] }

----------------------------------------------------------------------------
\* Row helpers.

\* An optional row is the empty set or a singleton.
Row(table, id) == IF id \in DOMAIN table THEN {table[id]} ELSE {}

The(rows) == CHOOSE x \in rows : TRUE

\* Unit of work: a column is written iff its assigned value differs from the
\* loaded one; all other columns keep what the store holds at commit time.
Flush(cur, loaded, assigned) ==
  [f \in DOMAIN cur |->
     IF f \in DOMAIN assigned /\ assigned[f] # loaded[f] THEN assigned[f]
     ELSE cur[f]]

Drop(table, id) == [k \in (DOMAIN table) \ {id} |-> table[k]]

Put(table, id, row) ==
  [k \in (DOMAIN table) \cup {id} |-> IF k = id THEN row ELSE table[k]]

\* The answer to a request, until it has been sent.
Response(op, user, inventory_id, booking_id, transfer_id, result) ==
  [op |-> op, user |-> user, inventory_id |-> inventory_id,
   booking_id |-> booking_id, transfer_id |-> transfer_id, result |-> result]

\* A request: its inputs and the rows its session has loaded.
Request(op, user, inventory_id, booking_id, transfer_id, customer_id, to_customer_id, fee, inv, booking, transfer) ==
  [op |-> op, user |-> user, inventory_id |-> inventory_id,
   booking_id |-> booking_id, transfer_id |-> transfer_id,
   customer_id |-> customer_id, to_customer_id |-> to_customer_id, fee |-> fee,
   inv |-> inv, booking |-> booking, transfer |-> transfer]

----------------------------------------------------------------------------
\* core/security.py

role_checker(required_role, user) ==
  User[user].role \in {required_role, "master_admin"}

----------------------------------------------------------------------------
\* business_logic/inventory_rules.py, evaluated on the loaded inventory row.

check_hold_expiry(inv, t) ==
  IF inv.status = "on_hold" /\ inv.hold_expiry_date # NoDate /\ t > inv.hold_expiry_date
  THEN "HoldExpired" ELSE "ok"

prevent_double_booking(inv) ==
  IF inv.status \in {"booked", "sold"} THEN "Conflict" ELSE "ok"

validate_investor_consent(inventory_id, inv) ==
  IF inv.investor_locked
     /\ \E a \in Assignments : a.inventory_id = inventory_id /\ a.consent_required
  THEN "ConsentRequired" ELSE "ok"

validate_inventory_availability(inventory_id, inv, t) ==
  IF check_hold_expiry(inv, t) # "ok" THEN check_hold_expiry(inv, t)
  ELSE IF prevent_double_booking(inv) # "ok" THEN prevent_double_booking(inv)
  ELSE IF validate_investor_consent(inventory_id, inv) # "ok"
       THEN validate_investor_consent(inventory_id, inv)
  ELSE IF inv.status \notin {"available", "on_hold"} THEN "InvalidTransition"
  ELSE "ok"

allowed_transitions ==
  [ available |-> {"on_hold", "booked"},
    on_hold   |-> {"available", "booked"},
    booked    |-> {"available", "sold"},
    sold      |-> {} ]

----------------------------------------------------------------------------
\* Guards of the handlers, in the order of the code.  The result is "ok" or
\* the error the handler raises.

\* place_hold without its own status test, which would leave the decision to
\* validate_inventory_availability (that one admits a unit on hold).
place_hold_check_no_status(user, inventory_id, inv, t) ==
  IF ~role_checker("sales_agent", user) THEN "Forbidden"
  ELSE IF User[user].role # "master_admin"
          /\ ProjectBuilder(inventory_id) # User[user].builder_id THEN "Forbidden"
  ELSE IF validate_inventory_availability(inventory_id, inv, t) # "ok"
       THEN validate_inventory_availability(inventory_id, inv, t)
  ELSE "ok"

place_hold_check(user, inventory_id, inv, t) ==
  IF ~role_checker("sales_agent", user) THEN "Forbidden"
  ELSE IF User[user].role # "master_admin"
          /\ ProjectBuilder(inventory_id) # User[user].builder_id THEN "Forbidden"
  ELSE IF validate_inventory_availability(inventory_id, inv, t) # "ok"
       THEN validate_inventory_availability(inventory_id, inv, t)
  ELSE IF inv.status # "available" THEN "InvalidTransition"
  ELSE IF inv.investor_locked /\ validate_investor_consent(inventory_id, inv) # "ok"
       THEN "ConsentRequired"
  ELSE "ok"

create_booking_check(user, inventory_id, inv) ==
  IF ~role_checker("sales_agent", user) THEN "Forbidden"
  ELSE IF ProjectBuilder(inventory_id) # User[user].builder_id THEN "Forbidden"
  ELSE IF inv.status \notin {"available", "on_hold"} THEN "InvalidTransition"
  ELSE IF inv.status = "on_hold"
          /\ inv.booked_by_id # user
          /\ User[user].role \notin {"admin", "super_admin"} THEN "Forbidden"
  ELSE "ok"

\* cancel_booking without the test for a booking that is already cancelled.
cancel_booking_check_no_guard(user, booking) ==
  IF ~role_checker("admin", user) THEN "Forbidden"
  ELSE IF booking = {} THEN "NotFound"
  ELSE IF User[user].role # "master_admin"
          /\ ProjectBuilder(The(booking).inventory_id) # User[user].builder_id
       THEN "Forbidden"
  ELSE "ok"

cancel_booking_check(user, booking) ==
  IF ~role_checker("admin", user) THEN "Forbidden"
  ELSE IF booking = {} THEN "NotFound"
  ELSE IF User[user].role # "master_admin"
          /\ ProjectBuilder(The(booking).inventory_id) # User[user].builder_id
       THEN "Forbidden"
  ELSE IF The(booking).booking_status = "cancelled" THEN "AlreadyInState"
  ELSE "ok"

delete_booking_check(user, booking) ==
  IF ~role_checker("admin", user) THEN "Forbidden"
  ELSE IF booking = {} THEN "NotFound"
  ELSE IF User[user].role # "master_admin"
          /\ ProjectBuilder(The(booking).inventory_id) # User[user].builder_id
       THEN "Forbidden"
  ELSE IF The(booking).booking_status # "confirmed" THEN "InvalidTransition"
  ELSE "ok"

delete_inventory_check(user, inventory_id, inv) ==
  IF ~role_checker("admin", user) THEN "Forbidden"
  ELSE IF User[user].role # "master_admin"
          /\ ProjectBuilder(inventory_id) # User[user].builder_id THEN "Forbidden"
  ELSE IF inv.status \in {"booked", "sold"} THEN "InvalidTransition"
  ELSE "ok"


create_transfer_check(user, inventory_id, inv, booking) ==
  IF ~role_checker("admin", user) THEN "Forbidden"
  ELSE IF ProjectBuilder(inventory_id) # User[user].builder_id THEN "Forbidden"
  ELSE IF booking = {} \/ The(booking).inventory_id # inventory_id THEN "BadRequest"
  ELSE IF The(booking).booking_status \notin {"booked", "sold"} THEN "InvalidTransition"
  ELSE IF inv.status \notin {"booked", "sold"} THEN "InvalidTransition"
  ELSE "ok"

\* Lookup and permission part shared by the handlers of one transfer.
transfer_access(user, transfer, booking) ==
  IF ~role_checker("admin", user) THEN "Forbidden"
  ELSE IF transfer = {} THEN "NotFound"
  ELSE IF booking = {} THEN "BadRequest"
  ELSE IF User[user].role # "master_admin"
          /\ ProjectBuilder(The(booking).inventory_id) # User[user].builder_id
       THEN "Forbidden"
  ELSE "ok"

update_transfer_check(user, transfer, booking) ==
  IF transfer_access(user, transfer, booking) # "ok"
  THEN transfer_access(user, transfer, booking)
  ELSE IF The(transfer).status # "pending" THEN "InvalidTransition"
  ELSE "ok"

approve_transfer_check(user, transfer, booking) ==
  IF transfer_access(user, transfer, booking) # "ok"
  THEN transfer_access(user, transfer, booking)
  ELSE IF The(transfer).status # "pending" THEN "InvalidTransition"
  ELSE "ok"

complete_transfer_check(user, transfer, booking) ==
  IF transfer_access(user, transfer, booking) # "ok"
  THEN transfer_access(user, transfer, booking)
  ELSE IF The(transfer).status # "approved" THEN "InvalidTransition"
  ELSE "ok"

delete_transfer_check(user, transfer, booking) ==
  IF transfer_access(user, transfer, booking) # "ok"
  THEN transfer_access(user, transfer, booking)
  ELSE IF The(transfer).status # "pending" THEN "InvalidTransition"
  ELSE "ok"

----------------------------------------------------------------------------
\* The store after construction: every unit available, no booking, no transfer.

NewInventory(locked) ==
  [status |-> "available", hold_expiry_date |-> NoDate,
   booked_by_id |-> NoUser, investor_locked |-> locked]

NoResponse == Response("none", NoUser, "none", 0, 0, "none")

Init ==
  /\ unit = [u \in Units |-> NewInventory(u = "u2")]
  /\ bookings = <<>>
  /\ transfers = <<>>
  /\ now = 0
  /\ inflight = {}
  /\ resp = NoResponse
  /\ nextBooking = 1
  /\ nextTransfer = 1
  /\ projects = <<>>

\* A store that already holds a booked unit, its confirmed booking and a
\* pending transfer of that booking.
InitStored ==
  /\ unit = [u \in Units |->
       IF u = "u1"
       THEN [status |-> "booked", hold_expiry_date |-> NoDate,
             booked_by_id |-> "agentA", investor_locked |-> FALSE]
       ELSE NewInventory(TRUE)]
  /\ bookings = 1 :> [inventory_id |-> "u1", customer_id |-> "c1",
                      booking_status |-> "confirmed", cancelled_by_id |-> NoUser]
  /\ transfers = 1 :> [inventory_id |-> "u1", booking_id |-> 1,
                       from_customer_id |-> "c1", to_customer_id |-> "c2",
                       status |-> "pending",
                       transfer_fee |-> (Price("u1") * TRANSFER_FEE_PERCENTAGE) \div 100,
                       approved_by_id |-> NoUser]
  /\ now = 0
  /\ inflight = {}
  /\ resp = NoResponse
  /\ nextBooking = 2
  /\ nextTransfer = 2
  /\ projects = <<>>

\* A store whose units are both investor-locked (lock_inventory).
InitLocked ==
  /\ unit = [u \in Units |-> NewInventory(TRUE)]
  /\ bookings = <<>>
  /\ transfers = <<>>
  /\ now = 0
  /\ inflight = {}
  /\ resp = NoResponse
  /\ nextBooking = 1
  /\ nextTransfer = 1
  /\ projects = <<>>

----------------------------------------------------------------------------
\* Commits: what a handler whose guards passed writes.

place_hold_commit(r) ==
  /\ unit' = [unit EXCEPT ![r.inventory_id] =
       Flush(@, The(r.inv),
             [status |-> "on_hold",
              hold_expiry_date |-> now + DEFAULT_HOLD_EXPIRY_HOURS,
              booked_by_id |-> r.user])]
  /\ resp' = Response(r.op, r.user, r.inventory_id, 0, 0, "ok")
  /\ UNCHANGED <<bookings, transfers, nextBooking, nextTransfer>>

create_booking_commit(r) ==
  /\ bookings' = Put(bookings, nextBooking,
       [inventory_id |-> r.inventory_id, customer_id |-> r.customer_id,
        booking_status |-> "confirmed", cancelled_by_id |-> NoUser])
  /\ nextBooking' = nextBooking + 1
  /\ unit' = [unit EXCEPT ![r.inventory_id] =
       Flush(@, The(r.inv), [status |-> "booked", booked_by_id |-> r.user])]
  /\ resp' = Response(r.op, r.user, r.inventory_id, nextBooking, 0, "ok")
  /\ UNCHANGED <<transfers, nextTransfer>>

\* A release that sets the status only.
Released_status_only(inv) ==
  [inv EXCEPT !.status = "available"]

\* The inventory row of cancel_booking and delete_booking is loaded right
\* before the commit and set back to available.
Released(inv) ==
  [inv EXCEPT !.status = "available", !.hold_expiry_date = NoDate,
              !.booked_by_id = NoUser]

\* A failed commit that keeps the writes made to the units.
Failed_units_written(r) ==
  /\ resp' = Response(r.op, r.user, r.inventory_id, r.booking_id, r.transfer_id, "ServerError")
  /\ unit' = [u \in Units |-> IF The(r.booking).inventory_id = u THEN Released(unit[u]) ELSE unit[u]]
  /\ UNCHANGED <<bookings, transfers, nextBooking, nextTransfer>>

\* An UPDATE of a row that another session has deleted fails the commit.
Failed(r) ==
  /\ resp' = Response(r.op, r.user, r.inventory_id, r.booking_id, r.transfer_id, "ServerError")
  /\ UNCHANGED <<unit, bookings, transfers, nextBooking, nextTransfer>>

cancel_booking_commit(r) ==
  IF r.booking_id \notin DOMAIN bookings THEN Failed(r)
  ELSE /\ bookings' = [bookings EXCEPT ![r.booking_id] =
            Flush(@, The(r.booking),
                  [booking_status |-> "cancelled", cancelled_by_id |-> r.user])]
       /\ unit' = [unit EXCEPT ![The(r.booking).inventory_id] = Released(@)]
       /\ resp' = Response(r.op, r.user, The(r.booking).inventory_id, r.booking_id, 0, "ok")
       /\ UNCHANGED <<transfers, nextBooking, nextTransfer>>

\* Deleting a booking that a transfer still references violates the
\* NOT NULL foreign key of the transfer and fails the commit.
delete_booking_commit(r) ==
  IF \E t \in DOMAIN transfers : transfers[t].booking_id = r.booking_id THEN Failed(r)
  ELSE /\ bookings' = Drop(bookings, r.booking_id)
       /\ unit' = [unit EXCEPT ![The(r.booking).inventory_id] = Released(@)]
       /\ resp' = Response(r.op, r.user, The(r.booking).inventory_id, r.booking_id, 0, "ok")
       /\ UNCHANGED <<transfers, nextBooking, nextTransfer>>

delete_inventory_commit(r) ==
  /\ unit' = [unit EXCEPT ![r.inventory_id] =
       Flush(@, The(r.inv), [status |-> "inactive"])]
  /\ resp' = Response(r.op, r.user, r.inventory_id, 0, 0, "ok")
  /\ UNCHANGED <<bookings, transfers, nextBooking, nextTransfer>>

\* The fee create_transfer stores, as a set: a fee that is given and not zero
\* is kept; for a missing or zero fee the handler multiplies the Decimal
\* price by the float TRANSFER_FEE_PERCENTAGE / 100, which raises TypeError,
\* so there is no fee and the request fails.
calculate_transfer_fee(fee, price) ==
  IF fee = NoFee \/ fee = 0 THEN {} ELSE {fee}

create_transfer_commit(r) ==
  IF calculate_transfer_fee(r.fee, Price(r.inventory_id)) = {} THEN Failed(r)
  ELSE /\ transfers' = Put(transfers, nextTransfer,
            [inventory_id |-> r.inventory_id, booking_id |-> r.booking_id,
             from_customer_id |-> r.customer_id, to_customer_id |-> r.to_customer_id,
             status |-> "pending",
             transfer_fee |-> The(calculate_transfer_fee(r.fee, Price(r.inventory_id))),
             approved_by_id |-> NoUser])
       /\ nextTransfer' = nextTransfer + 1
       /\ resp' = Response(r.op, r.user, r.inventory_id, r.booking_id, nextTransfer, "ok")
       /\ UNCHANGED <<unit, bookings, nextBooking>>

\* Fields a TransferUpdate body can set.
TransferUpdateFields == {"transfer_fee"}

update_transfer_commit(r) ==
  IF r.transfer_id \notin DOMAIN transfers THEN Failed(r)
  ELSE /\ transfers' = [transfers EXCEPT ![r.transfer_id] =
            Flush(@, The(r.transfer),
                  [f \in TransferUpdateFields |-> r.fee])]
       /\ resp' = Response(r.op, r.user, "none", 0, r.transfer_id, "ok")
       /\ UNCHANGED <<unit, bookings, nextBooking, nextTransfer>>

\* An approval that leaves the booking with its customer.
approve_transfer_commit_transfer_only(r) ==
  IF r.transfer_id \notin DOMAIN transfers
     \/ The(r.transfer).booking_id \notin DOMAIN bookings THEN Failed(r)
  ELSE /\ transfers' = [transfers EXCEPT ![r.transfer_id] =
            Flush(@, The(r.transfer),
                  [status |-> "approved", approved_by_id |-> r.user])]
       /\ unit' = [unit EXCEPT ![The(r.transfer).inventory_id] =
            [@ EXCEPT !.booked_by_id = r.user]]
       /\ resp' = Response(r.op, r.user, The(r.transfer).inventory_id,
                           The(r.transfer).booking_id, r.transfer_id, "ok")
       /\ UNCHANGED <<bookings, nextBooking, nextTransfer>>

approve_transfer_commit(r) ==
  IF r.transfer_id \notin DOMAIN transfers
     \/ The(r.transfer).booking_id \notin DOMAIN bookings THEN Failed(r)
  ELSE /\ transfers' = [transfers EXCEPT ![r.transfer_id] =
            Flush(@, The(r.transfer),
                  [status |-> "approved", approved_by_id |-> r.user])]
       /\ bookings' = [bookings EXCEPT ![The(r.transfer).booking_id] =
            Flush(@, The(r.booking),
                  [customer_id |-> The(r.transfer).to_customer_id])]
       /\ unit' = [unit EXCEPT ![The(r.transfer).inventory_id] =
            [@ EXCEPT !.booked_by_id = r.user]]
       /\ resp' = Response(r.op, r.user, The(r.transfer).inventory_id,
                           The(r.transfer).booking_id, r.transfer_id, "ok")
       /\ UNCHANGED <<nextBooking, nextTransfer>>

complete_transfer_commit(r) ==
  IF r.transfer_id \notin DOMAIN transfers THEN Failed(r)
  ELSE /\ transfers' = [transfers EXCEPT ![r.transfer_id] =
            Flush(@, The(r.transfer), [status |-> "completed"])]
       /\ unit' = [unit EXCEPT ![The(r.transfer).inventory_id] =
            [@ EXCEPT !.status = IF @ = "booked" THEN "sold" ELSE @,
                      !.booked_by_id = r.user]]
       /\ resp' = Response(r.op, r.user, The(r.transfer).inventory_id,
                           The(r.transfer).booking_id, r.transfer_id, "ok")
       /\ UNCHANGED <<bookings, nextBooking, nextTransfer>>

delete_transfer_commit(r) ==
  /\ transfers' = Drop(transfers, r.transfer_id)
  /\ resp' = Response(r.op, r.user, "none", 0, r.transfer_id, "ok")
  /\ UNCHANGED <<unit, bookings, nextBooking, nextTransfer>>

Apply(r) ==
  CASE r.op = "place_hold" -> place_hold_commit(r)
    [] r.op = "create_booking" -> create_booking_commit(r)
    [] r.op = "cancel_booking" -> cancel_booking_commit(r)
    [] r.op = "delete_booking" -> delete_booking_commit(r)
    [] r.op = "delete_inventory" -> delete_inventory_commit(r)
    [] r.op = "create_transfer" -> create_transfer_commit(r)
    [] r.op = "update_transfer" -> update_transfer_commit(r)
    [] r.op = "approve_transfer" -> approve_transfer_commit(r)
    [] r.op = "complete_transfer" -> complete_transfer_commit(r)
    [] r.op = "delete_transfer" -> delete_transfer_commit(r)

----------------------------------------------------------------------------
\* The requests: inputs and the rows the handler loads before its guards.

place_hold_request(user, inventory_id) ==
  Request("place_hold", user, inventory_id, 0, 0, "none", "none", NoFee,
          {unit[inventory_id]}, {}, {})

create_booking_request(user, inventory_id, customer_id) ==
  Request("create_booking", user, inventory_id, 0, 0, customer_id, "none", NoFee,
          {unit[inventory_id]}, {}, {})

cancel_booking_request(user, booking_id) ==
  Request("cancel_booking", user, "none", booking_id, 0, "none", "none", NoFee,
          {}, Row(bookings, booking_id), {})

delete_booking_request(user, booking_id) ==
  Request("delete_booking", user, "none", booking_id, 0, "none", "none", NoFee,
          {}, Row(bookings, booking_id), {})

delete_inventory_request(user, inventory_id) ==
  Request("delete_inventory", user, inventory_id, 0, 0, "none", "none", NoFee,
          {unit[inventory_id]}, {}, {})

create_transfer_request(user, inventory_id, booking_id, from_customer_id, to_customer_id, fee) ==
  Request("create_transfer", user, inventory_id, booking_id, 0,
          from_customer_id, to_customer_id, fee,
          {unit[inventory_id]}, Row(bookings, booking_id), {})

\* The booking a transfer row references, as its handlers load it.
BookingOf(transfer) ==
  IF transfer = {} THEN {} ELSE Row(bookings, The(transfer).booking_id)

transfer_request(op, user, transfer_id, fee) ==
  Request(op, user, "none", 0, transfer_id, "none", "none", fee,
          {}, BookingOf(Row(transfers, transfer_id)), Row(transfers, transfer_id))

\* The guards of request r, evaluated on the rows it has loaded.
Check(r) ==
  CASE r.op = "place_hold" ->
         place_hold_check(r.user, r.inventory_id, The(r.inv), now)
    [] r.op = "create_booking" ->
         create_booking_check(r.user, r.inventory_id, The(r.inv))
    [] r.op = "cancel_booking" -> cancel_booking_check(r.user, r.booking)
    [] r.op = "delete_booking" -> delete_booking_check(r.user, r.booking)
    [] r.op = "delete_inventory" ->
         delete_inventory_check(r.user, r.inventory_id, The(r.inv))
    [] r.op = "create_transfer" ->
         create_transfer_check(r.user, r.inventory_id, The(r.inv), r.booking)
    [] r.op = "update_transfer" -> update_transfer_check(r.user, r.transfer, r.booking)
    [] r.op = "approve_transfer" -> approve_transfer_check(r.user, r.transfer, r.booking)
    [] r.op = "complete_transfer" -> complete_transfer_check(r.user, r.transfer, r.booking)
    [] r.op = "delete_transfer" -> delete_transfer_check(r.user, r.transfer, r.booking)

\* Insertions stay within the identifiers of the model.
Room(r) ==
  /\ r.op = "create_booking" => nextBooking <= MaxBookings
  /\ r.op = "create_transfer" => nextTransfer <= MaxTransfers

Answer(r, result) ==
  /\ resp' = Response(r.op, r.user, r.inventory_id, r.booking_id, r.transfer_id, result)
  /\ UNCHANGED <<unit, bookings, transfers, now, inflight, nextBooking, nextTransfer,
                 projects>>

\* One request from its reads to its answer, with no other request in between.
Serve(r) ==
  /\ resp = NoResponse
  /\ IF Check(r) # "ok" THEN Answer(r, Check(r))
     ELSE Room(r) /\ Apply(r) /\ UNCHANGED <<now, inflight, projects>>

----------------------------------------------------------------------------
\* Request handlers.

place_hold(user, inventory_id) == Serve(place_hold_request(user, inventory_id))

create_booking(user, inventory_id, customer_id) ==
  Serve(create_booking_request(user, inventory_id, customer_id))

cancel_booking(user, booking_id) == Serve(cancel_booking_request(user, booking_id))

delete_booking(user, booking_id) == Serve(delete_booking_request(user, booking_id))

delete_inventory(user, inventory_id) == Serve(delete_inventory_request(user, inventory_id))

create_transfer(user, inventory_id, booking_id, from_customer_id, to_customer_id, fee) ==
  Serve(create_transfer_request(user, inventory_id, booking_id,
                                from_customer_id, to_customer_id, fee))

update_transfer(user, transfer_id, fee) ==
  Serve(transfer_request("update_transfer", user, transfer_id, fee))

approve_transfer(user, transfer_id) ==
  Serve(transfer_request("approve_transfer", user, transfer_id, NoFee))

complete_transfer(user, transfer_id) ==
  Serve(transfer_request("complete_transfer", user, transfer_id, NoFee))

delete_transfer(user, transfer_id) ==
  Serve(transfer_request("delete_transfer", user, transfer_id, NoFee))

\* The answer goes out to the client.
Reply ==
  /\ resp # NoResponse
  /\ resp' = NoResponse
  /\ UNCHANGED <<unit, bookings, transfers, now, inflight, nextBooking, nextTransfer,
                 projects>>

\* The clock.
Tick ==
  /\ now < MaxTicks * HoursPerTick
  /\ now' = now + HoursPerTick
  /\ UNCHANGED <<unit, bookings, transfers, inflight, resp, nextBooking, nextTransfer,
                 projects>>

Fees == {NoFee, 500}

Next ==
  \/ \E user \in Users, inventory_id \in Units : place_hold(user, inventory_id)
  \/ \E user \in Users, inventory_id \in Units, customer_id \in Buyers :
        create_booking(user, inventory_id, customer_id)
  \/ \E user \in Users, booking_id \in BookingIds : cancel_booking(user, booking_id)
  \/ \E user \in Users, booking_id \in BookingIds : delete_booking(user, booking_id)
  \/ \E user \in Users, inventory_id \in Units : delete_inventory(user, inventory_id)
  \/ \E user \in Users, inventory_id \in Units, booking_id \in BookingIds, fee \in Fees :
        create_transfer(user, inventory_id, booking_id, "c1", "c2", fee)
  \/ \E user \in Users, transfer_id \in TransferIds, fee \in Fees \ {NoFee} :
        update_transfer(user, transfer_id, fee)
  \/ \E user \in Users, transfer_id \in TransferIds : approve_transfer(user, transfer_id)
  \/ \E user \in Users, transfer_id \in TransferIds : complete_transfer(user, transfer_id)
  \/ \E user \in Users, transfer_id \in TransferIds : delete_transfer(user, transfer_id)
  \/ Reply
  \/ Tick

Spec == Init /\ [][Next]_vars

SpecStored == InitStored /\ [][Next]_vars

SpecLocked == InitLocked /\ [][Next]_vars

----------------------------------------------------------------------------
\* Interleaved sessions.  A request whose guards pass may be suspended
\* between its reads and its commit; the requests that run meanwhile are
\* taken start to end, which covers every interleaving of two sessions.

RaceUsers == {"agentA", "agentB", "admin"}

Incoming ==
  {place_hold_request(u, i) : u \in RaceUsers, i \in Units}
  \cup {create_booking_request(u, i, "c1") : u \in RaceUsers, i \in Units}
  \cup {cancel_booking_request(u, b) : u \in RaceUsers, b \in BookingIds}
  \cup {delete_booking_request(u, b) : u \in RaceUsers, b \in BookingIds}
  \cup {delete_inventory_request(u, i) : u \in RaceUsers, i \in Units}
  \cup {transfer_request(op, u, t, NoFee) :
          op \in {"approve_transfer", "complete_transfer", "delete_transfer"},
          u \in RaceUsers, t \in TransferIds}
  \cup {transfer_request("update_transfer", u, t, 500) : u \in RaceUsers, t \in TransferIds}

\* The session of r has loaded its rows and passed its guards.
suspend(r) ==
  /\ Room(r)
  /\ Check(r) = "ok"
  /\ Cardinality(inflight) < MaxInflight
  /\ r \notin inflight
  /\ inflight' = inflight \cup {r}
  /\ UNCHANGED <<unit, bookings, transfers, now, resp, nextBooking, nextTransfer,
                 projects>>

\* A request that runs start to end.
overtake(r) ==
  /\ Check(r) = "ok"
  /\ Serve(r)

\* A suspended request commits.
commit(r) ==
  /\ r \in inflight
  /\ resp = NoResponse
  /\ Room(r)
  /\ inflight' = inflight \ {r}
  /\ UNCHANGED <<now, projects>>
  /\ Apply(r)

NextRace ==
  \/ \E r \in Incoming : suspend(r)
  \/ \E r \in Incoming : overtake(r)
  \/ \E r \in inflight : commit(r)
  \/ Reply
  \/ Tick

SpecRace == Init /\ [][NextRace]_vars

SpecRaceStored == InitStored /\ [][NextRace]_vars

----------------------------------------------------------------------------
\* Projects of a builder (api/v1/routers/projects.py).  A project row is
\* never removed: delete_project sets its status to cancelled.

MaxProjects == 5

Builders == {"b1", "b2"}

\* builders table: the project limit of every builder.
Builder == [b \in Builders |-> [max_projects |-> 3]]

ProjectIds == 1..MaxProjects

NewProject(builder_id) == [builder_id |-> builder_id, status |-> "active"]

\* The projects of the builder that are not cancelled, as create_project
\* counts them.
project_count(builder_id) ==
  Cardinality({p \in DOMAIN projects :
                 /\ projects[p].builder_id = builder_id
                 /\ projects[p].status # "cancelled"})

ProjectRequest(op, user, builder_id, project_id, count, project) ==
  [op |-> op, user |-> user, inventory_id |-> "none", booking_id |-> 0,
   transfer_id |-> 0, builder_id |-> builder_id, project_id |-> project_id,
   project_count |-> count, project |-> project]

create_project_request(user, builder_id) ==
  ProjectRequest("create_project", user, builder_id, 0,
                 project_count(builder_id), {})

delete_project_request(user, project_id) ==
  ProjectRequest("delete_project", user, NoBuilder, project_id, 0,
                 Row(projects, project_id))

create_project_check(r) ==
  IF ~role_checker("admin", r.user) THEN "Forbidden"
  ELSE IF r.builder_id \notin Builders THEN "BadRequest"
  ELSE IF User[r.user].role # "master_admin" /\ r.builder_id # User[r.user].builder_id
       THEN "Forbidden"
  ELSE IF r.project_count >= Builder[r.builder_id].max_projects THEN "QuotaExceeded"
  ELSE "ok"

delete_project_check(r) ==
  IF ~role_checker("admin", r.user) THEN "Forbidden"
  ELSE IF r.project = {} THEN "NotFound"
  ELSE IF User[r.user].role # "master_admin"
          /\ The(r.project).builder_id # User[r.user].builder_id
       THEN "Forbidden"
  ELSE "ok"

CheckProject(r) ==
  IF r.op = "create_project" THEN create_project_check(r) ELSE delete_project_check(r)

create_project_commit(r) ==
  /\ projects' = Append(projects, NewProject(r.builder_id))
  /\ resp' = Response(r.op, r.user, "none", 0, 0, "ok")

delete_project_commit(r) ==
  /\ projects' = [projects EXCEPT ![r.project_id] =
       Flush(@, The(r.project), [status |-> "cancelled"])]
  /\ resp' = Response(r.op, r.user, "none", 0, 0, "ok")

ApplyProject(r) ==
  /\ IF r.op = "create_project" THEN create_project_commit(r)
     ELSE delete_project_commit(r)
  /\ UNCHANGED <<unit, bookings, transfers, now, nextBooking, nextTransfer>>

RoomProject(r) == r.op = "create_project" => Len(projects) < MaxProjects

\* One project request from its reads to its answer.
ServeProject(r) ==
  /\ resp = NoResponse
  /\ IF CheckProject(r) # "ok" THEN Answer(r, CheckProject(r))
     ELSE RoomProject(r) /\ ApplyProject(r) /\ UNCHANGED inflight

create_project(user, builder_id) == ServeProject(create_project_request(user, builder_id))

delete_project(user, project_id) == ServeProject(delete_project_request(user, project_id))

\* The session of a project request has done its reads and passed its guards.
suspend_project(r) ==
  /\ RoomProject(r)
  /\ CheckProject(r) = "ok"
  /\ Cardinality(inflight) < MaxInflight
  /\ r \notin inflight
  /\ inflight' = inflight \cup {r}
  /\ UNCHANGED <<unit, bookings, transfers, now, resp, nextBooking, nextTransfer,
                 projects>>

\* A suspended project request commits.
commit_project(r) ==
  /\ r \in inflight
  /\ resp = NoResponse
  /\ RoomProject(r)
  /\ inflight' = inflight \ {r}
  /\ ApplyProject(r)

NextProjects ==
  \/ \E user \in Users, builder_id \in Builders \cup {NoBuilder} :
        create_project(user, builder_id)
  \/ \E user \in Users, project_id \in ProjectIds : delete_project(user, project_id)
  \/ \E user \in Users, builder_id \in Builders :
        suspend_project(create_project_request(user, builder_id))
  \/ \E user \in Users, project_id \in ProjectIds :
        suspend_project(delete_project_request(user, project_id))
  \/ \E r \in inflight : commit_project(r)
  \/ Reply

SpecProjects == Init /\ [][NextProjects]_vars

----------------------------------------------------------------------------
\* Generic update of a unit (api/v1/routers/inventory.py, update_inventory).

\* Fields an InventoryUpdate body sets.
InventoryUpdateFields == {"status"}

\* The values the body gives them.
UpdateStatuses == {"available", "sold"}

update_inventory_request(user, inventory_id, status) ==
  Request("update_inventory", user, inventory_id, 0, 0, "none", "none", NoFee,
          {unit[inventory_id]}, {}, {}) @@ [status |-> status]

update_inventory_check(user, inventory_id, inv) ==
  IF ~role_checker("admin", user) THEN "Forbidden"
  ELSE IF User[user].role # "master_admin"
          /\ ProjectBuilder(inventory_id) # User[user].builder_id THEN "Forbidden"
  ELSE IF inv.investor_locked /\ User[user].role # "master_admin" THEN "Forbidden"
  ELSE "ok"

update_inventory_commit(r) ==
  /\ unit' = [unit EXCEPT ![r.inventory_id] =
       Flush(@, The(r.inv), [f \in InventoryUpdateFields |-> r.status])]
  /\ resp' = Response(r.op, r.user, r.inventory_id, 0, 0, "ok")
  /\ UNCHANGED <<bookings, transfers, nextBooking, nextTransfer>>

update_inventory(user, inventory_id, status) ==
  LET r == update_inventory_request(user, inventory_id, status)
      result == update_inventory_check(user, inventory_id, The(r.inv))
  IN  /\ resp = NoResponse
      /\ IF result # "ok" THEN Answer(r, result)
         ELSE update_inventory_commit(r) /\ UNCHANGED <<now, inflight, projects>>

NextUpdate ==
  \/ Next
  \/ \E user \in Users, inventory_id \in Units, status \in UpdateStatuses :
        update_inventory(user, inventory_id, status)

SpecUpdate == Init /\ [][NextUpdate]_vars

----------------------------------------------------------------------------
\* The fee of a new transfer: the part of create_transfer that follows its
\* guards, on a store where both units are booked.

FeeInputs == {NoFee, 0, 500, 19000}

InitFee ==
  /\ unit = [u \in Units |->
       [status |-> "booked", hold_expiry_date |-> NoDate,
        booked_by_id |-> "agentA", investor_locked |-> (u = "u2")]]
  /\ bookings = <<[inventory_id |-> "u1", customer_id |-> "c1",
                   booking_status |-> "confirmed", cancelled_by_id |-> NoUser],
                  [inventory_id |-> "u2", customer_id |-> "c1",
                   booking_status |-> "confirmed", cancelled_by_id |-> NoUser]>>
  /\ transfers = <<>>
  /\ now = 0
  /\ inflight = {}
  /\ resp = NoResponse
  /\ nextBooking = 3
  /\ nextTransfer = 1
  /\ projects = <<>>

\* The booking of the unit in that store.
BookingOn(inventory_id) == IF inventory_id = "u1" THEN 1 ELSE 2

store_transfer(user, inventory_id, fee) ==
  LET r == create_transfer_request(user, inventory_id, BookingOn(inventory_id),
                                   "c1", "c2", fee)
  IN  /\ resp = NoResponse
      /\ calculate_transfer_fee(fee, Price(inventory_id)) # {} => Room(r)
      /\ create_transfer_commit(r)
      /\ UNCHANGED <<now, inflight, projects>>

NextFee ==
  \/ \E user \in Users, inventory_id \in Units, fee \in FeeInputs :
        store_transfer(user, inventory_id, fee)
  \/ Reply
  \/ Tick

SpecFee == InitFee /\ [][NextFee]_vars

----------------------------------------------------------------------------
\* Two pending transfers of one booking: create_transfer does not look for
\* an earlier transfer of the booking.

PairTransferIds == {1, 2}

InitPair ==
  /\ unit = [u \in Units |->
       IF u = "u1"
       THEN [status |-> "booked", hold_expiry_date |-> NoDate,
             booked_by_id |-> "agentA", investor_locked |-> FALSE]
       ELSE NewInventory(TRUE)]
  /\ bookings = 1 :> [inventory_id |-> "u1", customer_id |-> "c1",
                      booking_status |-> "confirmed", cancelled_by_id |-> NoUser]
  /\ transfers = [t \in PairTransferIds |->
       [inventory_id |-> "u1", booking_id |-> 1,
        from_customer_id |-> "c1",
        to_customer_id |-> IF t = 1 THEN "c2" ELSE "c3",
        status |-> "pending",
        transfer_fee |-> 500,
        approved_by_id |-> NoUser]]
  /\ now = 0
  /\ inflight = {}
  /\ resp = NoResponse
  /\ nextBooking = 2
  /\ nextTransfer = 3
  /\ projects = <<>>

NextPair ==
  \/ \E user \in Users, transfer_id \in PairTransferIds : approve_transfer(user, transfer_id)
  \/ \E user \in Users, transfer_id \in PairTransferIds : complete_transfer(user, transfer_id)
  \/ \E user \in Users, transfer_id \in PairTransferIds : delete_transfer(user, transfer_id)
  \/ \E user \in Users, booking_id \in BookingIds : cancel_booking(user, booking_id)
  \/ Reply

SpecPair == InitPair /\ [][NextPair]_vars

----------------------------------------------------------------------------
\* Properties.

\* Actors of the builder that owns the unit's project.
OwnAgent(user, inventory_id) ==
  User[user].role = "sales_agent" /\ User[user].builder_id = ProjectBuilder(inventory_id)

OwnAdmin(user, inventory_id) ==
  User[user].role = "admin" /\ User[user].builder_id = ProjectBuilder(inventory_id)

ActiveBookings(inventory_id) ==
  {b \in DOMAIN bookings :
     bookings[b].inventory_id = inventory_id /\ bookings[b].booking_status # "cancelled"}

\* C1: under every interleaving of CreateBooking, CancelBooking, DeleteBooking
\* and PlaceHold, a unit has at most one booking that is not cancelled.
C1_AtMostOneActiveBooking ==
  \A u \in Units : Cardinality(ActiveBookings(u)) <= 1

\* C2: of two concurrent PlaceHold requests by different actors that both read
\* the unit as available, the one that commits after the other's hold is in
\* place answers Conflict and leaves the winner's hold as it is.
C2_SecondHoldConflicts ==
  [][\A r \in inflight :
       (/\ r.op = "place_hold"
        /\ unit[r.inventory_id].status = "on_hold"
        /\ unit[r.inventory_id].booked_by_id # r.user
        /\ commit(r))
       => (resp'.result = "Conflict" /\ unit' = unit)]_vars

\* The unit status moves the specification allows.
UnitMoves ==
  [ available |-> {"on_hold", "booked", "inactive"},
    on_hold   |-> {"available", "booked"},
    booked    |-> {"available", "sold", "inactive"},
    sold      |-> {},
    inactive  |-> {} ]

\* C3: a unit's status changes only along Available->OnHold, Available->Booked,
\* OnHold->Available, OnHold->Booked, Booked->Available, Booked->Sold,
\* Available->Inactive and Booked->Inactive; Sold is left by no step and a unit
\* on hold is never deactivated.
C3_UnitStatusMoves ==
  [][\A u \in Units :
       unit'[u].status # unit[u].status
       => unit'[u].status \in UnitMoves[unit[u].status]]_vars

\* C4: every step of the chain PlaceHold by an agent, CreateBooking by that
\* agent, CreateTransfer by an admin, ApproveTransfer, CompleteTransfer
\* succeeds when the previous steps have brought the unit there, and the chain
\* ends with the unit sold.
C4_EndToEnd ==
  [][/\ \A a \in Users, u \in Units :
          (/\ OwnAgent(a, u)
           /\ unit[u].status = "available"
           /\ ~unit[u].investor_locked
           /\ place_hold(a, u))
          => (/\ resp'.result = "ok"
              /\ unit'[u].status = "on_hold"
              /\ unit'[u].booked_by_id = a)
     /\ \A a \in Users, u \in Units, c \in Buyers :
          (/\ OwnAgent(a, u)
           /\ unit[u].status = "on_hold"
           /\ unit[u].booked_by_id = a
           /\ unit[u].hold_expiry_date >= now
           /\ create_booking(a, u, c))
          => (/\ resp'.result = "ok"
              /\ unit'[u].status = "booked")
     /\ \A adm \in Users, u \in Units, b \in DOMAIN bookings, fee \in Fees :
          (/\ OwnAdmin(adm, u)
           /\ unit[u].status = "booked"
           /\ bookings[b].inventory_id = u
           /\ bookings[b].booking_status = "confirmed"
           /\ create_transfer(adm, u, b, "c1", "c2", fee))
          => (/\ resp'.result = "ok"
              /\ nextTransfer \in DOMAIN transfers'
              /\ transfers'[nextTransfer].status = "pending")
     /\ \A adm \in Users, t \in DOMAIN transfers :
          (/\ OwnAdmin(adm, transfers[t].inventory_id)
           /\ transfers[t].status = "pending"
           /\ transfers[t].booking_id \in DOMAIN bookings
           /\ approve_transfer(adm, t))
          => (/\ resp'.result = "ok"
              /\ transfers'[t].status = "approved")
     /\ \A adm \in Users, t \in DOMAIN transfers :
          (/\ OwnAdmin(adm, transfers[t].inventory_id)
           /\ transfers[t].status = "approved"
           /\ transfers[t].booking_id \in DOMAIN bookings
           /\ unit[transfers[t].inventory_id].status = "booked"
           /\ complete_transfer(adm, t))
          => (/\ resp'.result = "ok"
              /\ transfers'[t].status = "completed"
              /\ unit'[transfers[t].inventory_id].status = "sold")
    ]_vars

\* C5: CreateBooking by the holder on a unit whose hold has expired answers
\* HoldExpired, creates no booking and sets the unit back to available with
\* holder and expiry cleared.
C5_ExpiredHoldRefused ==
  [][\A a \in Users, u \in Units, c \in Buyers :
       (/\ OwnAgent(a, u)
        /\ unit[u].status = "on_hold"
        /\ unit[u].booked_by_id = a
        /\ unit[u].hold_expiry_date < now
        /\ create_booking(a, u, c))
       => (/\ resp'.result = "HoldExpired"
           /\ bookings' = bookings
           /\ unit'[u] = Released(unit[u]))]_vars

HoldRefusal(user, inventory_id) ==
  IF ~(User[user].role = "master_admin" \/ OwnAgent(user, inventory_id)) THEN "Forbidden"
  ELSE IF unit[inventory_id].status = "on_hold"
          /\ unit[inventory_id].hold_expiry_date # NoDate
          /\ unit[inventory_id].hold_expiry_date < now THEN "HoldExpired"
  ELSE IF unit[inventory_id].status \in {"booked", "sold"} THEN "Conflict"
  ELSE IF unit[inventory_id].investor_locked
          /\ \E a \in Assignments : a.inventory_id = inventory_id /\ a.consent_required
       THEN "ConsentRequired"
  ELSE "InvalidTransition"

CanCancel(user, b) ==
  \/ User[user].role = "master_admin"
  \/ OwnAdmin(user, bookings[b].inventory_id)

\* C7: CancelBooking by an allowed actor succeeds on a booking that is not yet
\* cancelled; on a cancelled booking it answers AlreadyInState, and no
\* CancelBooking on a cancelled booking changes the booking or any unit,
\* whatever has happened to the unit since.
C7_CancelOnce ==
  [][\A a \in Users, b \in DOMAIN bookings :
       (resp'.op = "cancel_booking" /\ cancel_booking(a, b))
       => IF bookings[b].booking_status = "cancelled"
          THEN /\ CanCancel(a, b) => resp'.result = "AlreadyInState"
               /\ resp'.result # "ok"
               /\ bookings' = bookings
               /\ unit' = unit
          ELSE CanCancel(a, b)
               => (/\ resp'.result = "ok"
                   /\ bookings'[b].booking_status = "cancelled")]_vars

\* C7 witness: CancelBooking on a cancelled booking, whose unit another agent
\* holds or has booked since, has just been answered AlreadyInState.
C7_CancelledAgainAfterRehold ==
  \E a \in Users, b \in DOMAIN bookings :
    /\ bookings[b].booking_status = "cancelled"
    /\ bookings[b].cancelled_by_id = a
    /\ unit[bookings[b].inventory_id].status \in {"on_hold", "booked"}
    /\ unit[bookings[b].inventory_id].booked_by_id \in {"agentA", "agentB"}
    /\ resp = Response("cancel_booking", a, "none", b, 0, "AlreadyInState")

\* Roles above the sales agent.
Elevated(user) == User[user].role \in {"admin", "super_admin", "master_admin"}

\* C8: CreateBooking on a unit on hold (hold not expired), by an actor of the
\* owning builder or of the platform, succeeds exactly when the actor is the
\* holder or has an elevated role.
C8_HolderOrElevated ==
  [][\A a \in Users, u \in Units, c \in Buyers :
       (/\ User[a].role = "master_admin" \/ User[a].builder_id = ProjectBuilder(u)
        /\ unit[u].status = "on_hold"
        /\ unit[u].hold_expiry_date >= now
        /\ create_booking(a, u, c))
       => (/\ resp'.result = "ok" <=> (unit[u].booked_by_id = a \/ Elevated(a))
           /\ resp'.result \in {"ok", "Forbidden"})]_vars

\* C9: CreateTransfer by an admin of the builder, for a booking of the unit,
\* succeeds exactly when the unit is booked or sold and the booking is
\* confirmed, and then inserts a pending transfer.
C9_CreateTransferGuard ==
  [][\A adm \in Users, u \in Units, b \in DOMAIN bookings, fee \in Fees :
       (/\ OwnAdmin(adm, u)
        /\ bookings[b].inventory_id = u
        /\ create_transfer(adm, u, b, "c1", "c2", fee))
       => (/\ resp'.result = "ok"
                <=> (/\ unit[u].status \in {"booked", "sold"}
                     /\ bookings[b].booking_status = "confirmed")
           /\ resp'.result = "ok"
                => (/\ nextTransfer \in DOMAIN transfers'
                    /\ transfers'[nextTransfer].status = "pending"))]_vars

\* The transfer status moves the specification allows.
TransferMoves ==
  [ pending   |-> {"approved", "rejected"},
    approved  |-> {"completed"},
    rejected  |-> {},
    completed |-> {} ]

\* C10: the status of a transfer changes only from pending to approved or
\* rejected and from approved to completed; it never goes back and never
\* leaves completed or rejected.
C10_TransferStatusMoves ==
  [][\A t \in (DOMAIN transfers) \cap (DOMAIN transfers') :
       transfers'[t].status # transfers[t].status
       => transfers'[t].status \in TransferMoves[transfers[t].status]]_vars

\* The transfer-changing requests other than approval and completion leave a
\* transfer that is not pending present and unchanged.
OnlyPendingMutable ==
  [][\A t \in DOMAIN transfers :
       (/\ resp'.op \in {"update_transfer", "delete_transfer"}
        /\ transfers[t].status # "pending")
       => (t \in DOMAIN transfers' /\ transfers'[t] = transfers[t])]_vars

\* C11: a pending transfer can be rejected: whenever the server is idle some
\* request moves it to rejected (and update and delete are refused on a
\* transfer that is not pending, see OnlyPendingMutable).
C11_PendingCanBeRejected ==
  \A t \in DOMAIN transfers :
    (transfers[t].status = "pending" /\ resp = NoResponse)
    => ENABLED (/\ Next
                /\ t \in DOMAIN transfers'
                /\ transfers'[t].status = "rejected")

\* C12: for every unit, the hold expiry is set exactly when the unit is on
\* hold, and the holder is set exactly when the unit is on hold or booked.
C12_HoldFieldsMatchStatus ==
  \A u \in Units :
    /\ unit[u].hold_expiry_date # NoDate <=> unit[u].status = "on_hold"
    /\ unit[u].booked_by_id # NoUser <=> unit[u].status \in {"on_hold", "booked"}


\* C13: a successful cancel_booking, in one step, sets the booking to
\* cancelled with the caller as canceller and sets the unit of the booking to
\* available with no holder and no hold expiry; every other unit, every other
\* booking and every transfer are unchanged.
C13_CancelAtomic ==
  [][\A b \in DOMAIN bookings :
       (/\ resp'.op = "cancel_booking"
        /\ resp'.result = "ok"
        /\ resp'.booking_id = b)
       => /\ bookings' = [bookings EXCEPT ![b] =
               [@ EXCEPT !.booking_status = "cancelled",
                         !.cancelled_by_id = resp'.user]]
          /\ unit' = [unit EXCEPT ![bookings[b].inventory_id] =
               [@ EXCEPT !.status = "available",
                         !.hold_expiry_date = NoDate,
                         !.booked_by_id = NoUser]]
          /\ transfers' = transfers]_vars

\* A cancellation has just succeeded on a unit that had a holder, while
\* another booking on another unit stays confirmed.
C13_CancelledBesideConfirmed ==
  /\ resp.op = "cancel_booking"
  /\ resp.result = "ok"
  /\ resp.booking_id \in DOMAIN bookings
  /\ bookings[resp.booking_id].booking_status = "cancelled"
  /\ bookings[resp.booking_id].cancelled_by_id = resp.user
  /\ unit[resp.inventory_id].status = "available"
  /\ \E b \in DOMAIN bookings :
       /\ bookings[b].inventory_id # resp.inventory_id
       /\ bookings[b].booking_status = "confirmed"
       /\ unit[bookings[b].inventory_id].status = "booked"


\* C14: delete_booking succeeds only on a confirmed booking whose unit is not
\* sold, and then removes the booking and sets its unit to available with no
\* holder and no hold expiry; on any other booking it fails and leaves every
\* booking and every unit unchanged.
C14_DeleteOnlyConfirmedUnsold ==
  [][\A b \in DOMAIN bookings :
       (/\ resp'.op = "delete_booking"
        /\ resp'.booking_id = b)
       => LET u == bookings[b].inventory_id
              deletable == /\ bookings[b].booking_status = "confirmed"
                           /\ unit[u].status # "sold"
          IN  /\ resp'.result = "ok" =>
                   /\ deletable
                   /\ DOMAIN bookings' = DOMAIN bookings \ {b}
                   /\ \A k \in DOMAIN bookings' : bookings'[k] = bookings[k]
                   /\ unit' = [unit EXCEPT ![u] =
                        [@ EXCEPT !.status = "available",
                                  !.hold_expiry_date = NoDate,
                                  !.booked_by_id = NoUser]]
              /\ ~deletable =>
                   /\ resp'.result # "ok"
                   /\ bookings' = bookings
                   /\ unit' = unit]_vars


\* C15: every builder has at most max_projects projects that are not
\* cancelled.
C15_ProjectQuota ==
  \A b \in Builders :
    Cardinality({p \in DOMAIN projects :
                   projects[p].builder_id = b /\ projects[p].status # "cancelled"})
      <= Builder[b].max_projects

\* Served from its reads to its answer with no other request in between,
\* create_project by a caller allowed to create succeeds exactly below the
\* limit.
QuotaWhenServedAlone ==
  [][\A b \in Builders :
       (/\ resp'.op = "create_project"
        /\ resp'.result \in {"ok", "QuotaExceeded"}
        /\ inflight' = inflight
        /\ create_project(resp'.user, b))
       => (resp'.result = "ok" <=>
             Cardinality({p \in DOMAIN projects :
                            projects[p].builder_id = b /\ projects[p].status # "cancelled"})
               < Builder[b].max_projects)]_vars


\* C16: a hold asked by an agent of the owning builder on an available unit
\* is refused with ConsentRequired exactly when the unit is investor-locked
\* and has an active assignment that requires consent (the store holds no
\* consent records, so every such assignment is unsatisfied); otherwise the
\* hold is placed.
C16_ConsentGate ==
  [][\A u \in Units :
       (/\ resp'.op = "place_hold"
        /\ resp'.inventory_id = u
        /\ OwnAgent(resp'.user, u)
        /\ unit[u].status = "available")
       => resp'.result =
            IF /\ unit[u].investor_locked
               /\ \E a \in Assignments : /\ a.inventory_id = u
                                         /\ a.consent_required
                                         /\ a.status = "active"
            THEN "ConsentRequired" ELSE "ok"]_vars


\* C17: place_hold and create_booking on an investor-locked unit that has an
\* active assignment requiring consent never succeed and leave every unit
\* and every booking unchanged.
C17_LockedUnitStaysAvailable ==
  [][\A u \in Units :
       (/\ resp'.op \in {"place_hold", "create_booking"}
        /\ resp'.inventory_id = u
        /\ unit[u].investor_locked
        /\ \E a \in Assignments : /\ a.inventory_id = u
                                  /\ a.consent_required
                                  /\ a.status = "active")
       => /\ resp'.result # "ok"
          /\ unit' = unit
          /\ bookings' = bookings]_vars


\* C18: a request that is answered with an error leaves every unit, booking,
\* transfer and project as it was; a successful approve_transfer shows its
\* transfer, booking and unit writes in one step.
C18_ErrorsChangeNothing ==
  [][/\ (resp' # NoResponse /\ resp'.result # "ok")
          => /\ unit' = unit
             /\ bookings' = bookings
             /\ transfers' = transfers
             /\ projects' = projects
     /\ \A t \in DOMAIN transfers :
          (/\ resp'.op = "approve_transfer"
           /\ resp'.result = "ok"
           /\ resp'.transfer_id = t)
          => /\ transfers'[t].status = "approved"
             /\ transfers'[t].approved_by_id = resp'.user
             /\ bookings'[transfers[t].booking_id].customer_id = transfers[t].to_customer_id
             /\ unit'[transfers[t].inventory_id].booked_by_id = resp'.user]_vars

\* A request has just been refused while the store holds an approved
\* transfer together with the booking and unit writes of its approval.
C18_RefusedAfterApproval ==
  /\ resp.result \notin {"ok", "none"}
  /\ \E t \in DOMAIN transfers :
       /\ transfers[t].status = "approved"
       /\ transfers[t].booking_id \in DOMAIN bookings
       /\ bookings[transfers[t].booking_id].customer_id = transfers[t].to_customer_id
       /\ unit[transfers[t].inventory_id].booked_by_id = transfers[t].approved_by_id


\* C19: a booking that is cancelled or completed is never changed or removed
\* by any request.
C19_ClosedBookingFrozen ==
  [][\A b \in DOMAIN bookings :
       bookings[b].booking_status \in {"cancelled", "completed"}
       => /\ b \in DOMAIN bookings'
          /\ bookings'[b] = bookings[b]]_vars


\* C20: whenever the server is idle and some hold has expired, a sweep is
\* possible: one step that sets every unit on hold with an expiry in the
\* past to available with no holder and no expiry, and changes no other
\* unit.
C20_ExpiredHoldsCanBeSwept ==
  LET expired(u) == unit[u].status = "on_hold" /\ unit[u].hold_expiry_date < now
  IN  (resp = NoResponse /\ \E u \in Units : expired(u))
      => ENABLED (/\ Next
                  /\ unit' = [u \in Units |->
                       IF unit[u].status = "on_hold" /\ unit[u].hold_expiry_date < now
                       THEN [unit[u] EXCEPT !.status = "available",
                                            !.hold_expiry_date = NoDate,
                                            !.booked_by_id = NoUser]
                       ELSE unit[u]])


\* C21: whenever the server is idle and a unit is on hold, a release is
\* possible: one step that sets the unit to available with no holder and no
\* expiry and leaves the bookings as they are.
C21_HoldCanBeReleased ==
  \A u \in Units :
    (unit[u].status = "on_hold" /\ resp = NoResponse)
    => ENABLED (/\ NextUpdate
                /\ unit'[u] = [unit[u] EXCEPT !.status = "available",
                                              !.hold_expiry_date = NoDate,
                                              !.booked_by_id = NoUser]
                /\ bookings' = bookings)

\* A unit on hold can be given the status available again, by
\* update_inventory, which keeps the holder and the expiry.
HeldStatusCanBeReset ==
  \A u \in Units :
    (unit[u].status = "on_hold" /\ resp = NoResponse)
    => ENABLED (/\ NextUpdate
                /\ unit'[u] = [unit[u] EXCEPT !.status = "available"]
                /\ bookings' = bookings)


\* C22: a hold asked by an agent of the owning builder or by the platform
\* admin, on an available unit that either is not investor-locked or has no
\* active assignment requiring consent, succeeds and sets that unit on hold
\* with the caller as holder and an expiry of now plus the default hold
\* period, later than now; no other unit changes.
C22_HoldPlaced ==
  [][\A u \in Units :
       (/\ resp'.op = "place_hold"
        /\ resp'.inventory_id = u
        /\ (OwnAgent(resp'.user, u) \/ User[resp'.user].role = "master_admin")
        /\ unit[u].status = "available"
        /\ ~(/\ unit[u].investor_locked
             /\ \E a \in Assignments : /\ a.inventory_id = u
                                       /\ a.consent_required
                                       /\ a.status = "active"))
       => /\ resp'.result = "ok"
          /\ unit' = [unit EXCEPT ![u] =
               [@ EXCEPT !.status = "on_hold",
                         !.booked_by_id = resp'.user,
                         !.hold_expiry_date = now + DEFAULT_HOLD_EXPIRY_HOURS]]
          /\ unit'[u].hold_expiry_date > now]_vars


\* C23: create_booking succeeds only on a unit that is available or on hold,
\* and then adds exactly one booking, confirmed, on that unit, and sets the
\* unit to booked with the caller as holder, in one step; on a unit that is
\* booked, sold or inactive it fails and adds no booking.
C23_BookingCreated ==
  [][\A u \in Units :
       (/\ resp'.op = "create_booking"
        /\ resp = NoResponse
        /\ resp'.inventory_id = u)
       => /\ resp'.result = "ok" =>
               /\ unit[u].status \in {"available", "on_hold"}
               /\ resp'.booking_id \notin DOMAIN bookings
               /\ DOMAIN bookings' = DOMAIN bookings \cup {resp'.booking_id}
               /\ \A b \in DOMAIN bookings : bookings'[b] = bookings[b]
               /\ bookings'[resp'.booking_id].inventory_id = u
               /\ bookings'[resp'.booking_id].customer_id \in Buyers
               /\ bookings'[resp'.booking_id].booking_status = "confirmed"
               /\ unit' = [unit EXCEPT ![u] =
                    [@ EXCEPT !.status = "booked", !.booked_by_id = resp'.user]]
          /\ unit[u].status \in {"booked", "sold", "inactive"} =>
               /\ resp'.result # "ok"
               /\ bookings' = bookings]_vars


\* C24: place_hold and create_booking by a caller of another builder than the
\* one owning the unit are answered Forbidden and change nothing, and neither
\* of them answers Forbidden to the platform admin.
C24_TenantCheck ==
  [][\A u \in Units :
       (/\ resp'.op \in {"place_hold", "create_booking"}
        /\ resp = NoResponse
        /\ resp'.inventory_id = u)
       => /\ (/\ User[resp'.user].role # "master_admin"
              /\ User[resp'.user].builder_id # ProjectBuilder(u))
             => /\ resp'.result = "Forbidden"
                /\ unit' = unit
                /\ bookings' = bookings
          /\ User[resp'.user].role = "master_admin"
             => resp'.result # "Forbidden"]_vars


\* C25: a successful approve_transfer of a pending transfer sets, in one
\* step, the transfer to approved with the caller as approver and the
\* customer of the transfer's booking to the transfer's to_customer; it
\* changes no other transfer or booking and the status of no unit.
C25_ApprovalReassigns ==
  [][\A t \in DOMAIN transfers :
       (/\ resp'.op = "approve_transfer"
        /\ resp = NoResponse
        /\ resp'.result = "ok"
        /\ resp'.transfer_id = t
        /\ transfers[t].status = "pending")
       => /\ transfers' = [transfers EXCEPT ![t] =
               [@ EXCEPT !.status = "approved", !.approved_by_id = resp'.user]]
          /\ bookings' = [bookings EXCEPT ![transfers[t].booking_id] =
               [@ EXCEPT !.customer_id = transfers[t].to_customer_id]]
          /\ \A u \in Units : unit'[u].status = unit[u].status]_vars

\* An approval has just succeeded: the transfer is approved, not completed,
\* its booking already belongs to the new customer and the unit is still
\* booked.
C25_ApprovedNotCompleted ==
  /\ resp.op = "approve_transfer"
  /\ resp.result = "ok"
  /\ resp.transfer_id \in DOMAIN transfers
  /\ transfers[resp.transfer_id].status = "approved"
  /\ transfers[resp.transfer_id].approved_by_id = resp.user
  /\ transfers[resp.transfer_id].from_customer_id # transfers[resp.transfer_id].to_customer_id
  /\ bookings[transfers[resp.transfer_id].booking_id].customer_id
       = transfers[resp.transfer_id].to_customer_id
  /\ unit[transfers[resp.transfer_id].inventory_id].status = "booked"


\* C26: a successful complete_transfer of an approved transfer sets the
\* transfer to completed and the status of its unit to sold if it was booked
\* and leaves that status as it was otherwise; complete_transfer on a
\* transfer that is pending, rejected or completed fails and changes no
\* transfer and no unit.
C26_CompletionSells ==
  [][\A t \in DOMAIN transfers :
       (/\ resp'.op = "complete_transfer"
        /\ resp = NoResponse
        /\ resp'.transfer_id = t)
       => LET u == transfers[t].inventory_id
          IN  /\ (resp'.result = "ok" /\ transfers[t].status = "approved")
                 => /\ transfers' = [transfers EXCEPT ![t] =
                         [@ EXCEPT !.status = "completed"]]
                    /\ unit'[u].status =
                         IF unit[u].status = "booked" THEN "sold" ELSE unit[u].status
                    /\ \A v \in Units \ {u} : unit'[v] = unit[v]
              /\ transfers[t].status \in {"pending", "rejected", "completed"}
                 => /\ resp'.result # "ok"
                    /\ transfers' = transfers
                    /\ unit' = unit]_vars

\* C27: the fee stored with a new transfer is the unit's price times the
\* transfer fee percentage over 100 when the request gives no fee, and the
\* fee of the request, zero included, when it gives one.
C27_FeeStored ==
  [][\A user \in Users, u \in Units, fee \in FeeInputs :
       store_transfer(user, u, fee)
       => /\ resp'.result = "ok"
          /\ nextTransfer \in DOMAIN transfers'
          /\ transfers'[nextTransfer].transfer_fee =
               IF fee = NoFee
               THEN (Price(u) * TRANSFER_FEE_PERCENTAGE) \div 100
               ELSE fee]_vars

\* A fee that is given and not zero is stored as given.
GivenFeeStored ==
  [][\A user \in Users, u \in Units, fee \in FeeInputs \ {NoFee, 0} :
       store_transfer(user, u, fee)
       => /\ resp'.result = "ok"
          /\ nextTransfer \in DOMAIN transfers'
          /\ transfers'[nextTransfer].transfer_fee = fee]_vars

\* C28: a unit that is booked or sold is referenced by exactly one booking
\* that is not cancelled, and a unit in any other status by none.
C28_StatusMatchesBookings ==
  \A u \in Units :
    Cardinality({b \in DOMAIN bookings :
                   /\ bookings[b].inventory_id = u
                   /\ bookings[b].booking_status # "cancelled"})
      = IF unit[u].status \in {"booked", "sold"} THEN 1 ELSE 0

\* C29: approve_transfer and complete_transfer succeed only while the booking
\* of the transfer is not cancelled and is the one booking of the transfer's
\* unit that is not cancelled, and after a successful complete_transfer the
\* unit is sold.
C29_TransferNeedsLiveBooking ==
  [][\A t \in DOMAIN transfers :
       (/\ resp'.op \in {"approve_transfer", "complete_transfer"}
        /\ resp = NoResponse
        /\ resp'.transfer_id = t
        /\ resp'.result = "ok")
       => LET b == transfers[t].booking_id
              u == transfers[t].inventory_id
          IN  /\ b \in DOMAIN bookings
              /\ bookings[b].booking_status # "cancelled"
              /\ \A c \in DOMAIN bookings :
                   (bookings[c].inventory_id = u /\ bookings[c].booking_status # "cancelled")
                   => c = b
              /\ resp'.op = "complete_transfer" => unit'[u].status = "sold"]_vars

\* C30: the customer of a booking changes only by the approval of a transfer
\* of that booking whose from_customer is the booking's customer before the
\* step and whose to_customer is its customer after the step.
C30_ReassignedFromOwner ==
  [][\A b \in DOMAIN bookings :
       (b \in DOMAIN bookings' /\ bookings'[b].customer_id # bookings[b].customer_id)
       => \E t \in DOMAIN transfers :
            /\ resp'.op = "approve_transfer"
            /\ resp'.transfer_id = t
            /\ transfers[t].booking_id = b
            /\ transfers[t].from_customer_id = bookings[b].customer_id
            /\ transfers[t].to_customer_id = bookings'[b].customer_id]_vars

====
